---- MODULE Spec2Model ----
(***************************************************************************)
(* A model of packages/config/src/index.ts of changesets: `parse`, the     *)
(* validation and assembly of a written configuration against a workspace, *)
(* `getNormalisedChangelogOption`, and the module-level `defaultConfig`.   *)
(*                                                                         *)
(* `parse` is modelled step by step, one action per check in program       *)
(* order, so that an exception thrown in the middle of the function (the   *)
(* destructuring of a null experimental-options value) ends the call where *)
(* the code ends it.  The module is loaded first (`defaultConfig` is       *)
(* computed by a call of `parse` on `defaultWrittenConfig`), then one call *)
(* of `parse` is made on an input drawn from bounded sets.                 *)
(*                                                                         *)
(* What is left out: the `$schema` entry of `defaultWrittenConfig`, which  *)
(* `parse` never reads; the directory and version of a package, of which   *)
(* `parse` reads only the name; the wording of the messages, each kept as  *)
(* the record of what its template is filled with.                         *)
(***************************************************************************)
EXTENDS Integers, Sequences, FiniteSets, TLC

(***************************************************************************)
(* JSON-like values.  Every value is a record of the same shape so that    *)
(* any two values can be compared: t is the kind, b the payload of a       *)
(* boolean, s the payload of a string or the literal of a number, a the    *)
(* elements of an array or the property values of an object, k the         *)
(* property names of an object (parallel to a).                            *)
(***************************************************************************)
Undef == [t |-> "undefined", b |-> FALSE, s |-> "", a |-> <<>>, k |-> <<>>]
Null == [t |-> "null", b |-> FALSE, s |-> "", a |-> <<>>, k |-> <<>>]
Bool(x) == [t |-> "boolean", b |-> x, s |-> "", a |-> <<>>, k |-> <<>>]
Str(x) == [t |-> "string", b |-> FALSE, s |-> x, a |-> <<>>, k |-> <<>>]
Num(x) == [t |-> "number", b |-> FALSE, s |-> x, a |-> <<>>, k |-> <<>>]
Arr(xs) == [t |-> "array", b |-> FALSE, s |-> "", a |-> xs, k |-> <<>>]
Obj(ks, xs) == [t |-> "object", b |-> FALSE, s |-> "", a |-> xs, k |-> ks]

Range(f) == {f[i] : i \in DOMAIN f}

\* JavaScript's typeof: null and arrays are "object".
TypeOf(v) == IF v.t \in {"null", "array"} THEN "object" ELSE v.t

IsArray(v) == v.t = "array"

\* JavaScript's truthiness, as tested by `if (json.ignore)`.
Truthy(v) ==
  CASE v.t \in {"undefined", "null"} -> FALSE
    [] v.t = "boolean" -> v.b
    [] v.t = "number" -> v.s # "0"
    [] v.t = "string" -> v.s # ""
    [] OTHER -> TRUE

\* Reading a property of a value that is neither null nor undefined: a
\* property the value does not have reads as undefined.
Get(v, key) ==
  IF v.t = "object" /\ \E i \in DOMAIN v.k : v.k[i] = key
  THEN v.a[CHOOSE i \in DOMAIN v.k : v.k[i] = key]
  ELSE Undef

\* Whether reading a property of v throws a TypeError.
PropertyReadThrows(v) == v.t \in {"undefined", "null"}

(***************************************************************************)
(* The written default configuration and the placeholder workspace.        *)
(***************************************************************************)
defaultWrittenConfig ==
  [changelog |-> Str("@changesets/cli/changelog"),
   commit |-> Bool(FALSE),
   linked |-> Arr(<<>>),
   access |-> Str("restricted"),
   baseBranch |-> Str("master"),
   updateInternalDependencies |-> Str("patch"),
   ignore |-> Arr(<<>>),
   experimental |-> Undef]

\* The names of the packages of the placeholder workspace (one package, "").
fakePackages == <<"">>

\* getNormalisedChangelogOption without the `null` options of a bare string.
getNormalisedChangelogOptionBare(thing) ==
  IF thing = Bool(FALSE) THEN Bool(FALSE)
  ELSE IF TypeOf(thing) = "string" THEN Arr(<<thing>>)
  ELSE thing

getNormalisedChangelogOption(thing) ==
  IF thing = Bool(FALSE) THEN Bool(FALSE)
  ELSE IF TypeOf(thing) = "string" THEN Arr(<<thing, Null>>)
  ELSE thing


(***************************************************************************)
(* Validation messages.  A message is the record of what the template      *)
(* string of the code is filled with: the check that produced it (kind),   *)
(* the value that JSON.stringify prints into it (value), and the package   *)
(* names it quotes (pkg, and dependsOn for the missing-dependent message). *)
(***************************************************************************)
Msg(kind, value, pkg, dependsOn) ==
  [kind |-> kind, value |-> value, pkg |-> pkg, dependsOn |-> dependsOn]

\* The first line of the aggregated report.
Banner == Msg("Some errors occurred when validating the changesets config:", Undef, "", "")

\* The text handed to the warning sink for the legacy access value.
PrivateAccessWarning == "The access option is set as private"

\* A JavaScript Set, kept as the sequence of its elements in insertion order.
SetHas(set, x) == x \in Range(set)

\* SetAdd as an array push, which keeps repeated elements.
SetAddRepeated(set, x) == Append(set, x)

SetAdd(set, x) == IF SetHas(set, x) THEN set ELSE Append(set, x)

\* The Set of the names of the packages of the workspace.
PkgNames(pkgs) == Range(pkgs)

ChangelogMessages(doc) ==
  IF /\ doc.changelog # Undef
     /\ doc.changelog # Bool(FALSE)
     /\ TypeOf(doc.changelog) # "string"
     /\ ~ (/\ IsArray(doc.changelog)
           /\ Len(doc.changelog.a) = 2
           /\ TypeOf(doc.changelog.a[1]) = "string")
  THEN <<Msg("changelog", doc.changelog, "", "")>>
  ELSE <<>>

IsLegacyAccess(doc) == doc.access = Str("private")

\* NormalizeAccess without the rewrite of the legacy value.
NormalizeAccessUnchanged(doc) == doc.access

NormalizeAccess(doc) == IF IsLegacyAccess(doc) THEN Str("restricted") ELSE doc.access

AccessWarnings(doc) == IF IsLegacyAccess(doc) THEN <<PrivateAccessWarning>> ELSE <<>>

AccessMessages(access) ==
  IF access # Undef /\ access # Str("restricted") /\ access # Str("public")
  THEN <<Msg("access", access, "", "")>>
  ELSE <<>>

CommitMessages(doc) ==
  IF doc.commit # Undef /\ TypeOf(doc.commit) # "boolean"
  THEN <<Msg("commit", doc.commit, "", "")>>
  ELSE <<>>

BaseBranchMessages(doc) ==
  IF doc.baseBranch # Undef /\ TypeOf(doc.baseBranch) # "string"
  THEN <<Msg("baseBranch", doc.baseBranch, "", "")>>
  ELSE <<>>

\* Array.isArray(x) && x.every(pkgName => typeof pkgName === "string")
IsArrayOfStrings(v) == IsArray(v) /\ \A i \in DOMAIN v.a : TypeOf(v.a[i]) = "string"

LinkedWellShaped(v) == IsArray(v) /\ \A i \in DOMAIN v.a : IsArrayOfStrings(v.a[i])

\* One pass of the inner loop over a linked group: st holds the messages
\* pushed so far and the two Sets foundPkgNames and duplicatedPkgNames.
RECURSIVE LinkedGroupLoop(_, _, _)
LinkedGroupLoop(names, pkgNames, st) ==
  IF names = <<>> THEN st
  ELSE LET linkedPkgName == Head(names).s
           pushed == IF linkedPkgName \notin pkgNames
                     THEN Append(st.messages, Msg("linked-not-found", Undef, linkedPkgName, ""))
                     ELSE st.messages
           dups == IF SetHas(st.foundPkgNames, linkedPkgName)
                   THEN SetAdd(st.duplicatedPkgNames, linkedPkgName)
                   ELSE st.duplicatedPkgNames
       IN LinkedGroupLoop(Tail(names), pkgNames,
            [messages |-> pushed,
             foundPkgNames |-> SetAdd(st.foundPkgNames, linkedPkgName),
             duplicatedPkgNames |-> dups])

\* The outer loop over the linked groups.
RECURSIVE LinkedLoop(_, _, _)
LinkedLoop(groups, pkgNames, st) ==
  IF groups = <<>> THEN st
  ELSE LinkedLoop(Tail(groups), pkgNames, LinkedGroupLoop(Head(groups).a, pkgNames, st))

\* DuplicateMessages in the reverse of the insertion order.
DuplicateMessagesReversed(duplicatedPkgNames) ==
  [i \in DOMAIN duplicatedPkgNames |->
     Msg("linked-duplicate", Undef,
         duplicatedPkgNames[Len(duplicatedPkgNames) + 1 - i], "")]

\* duplicatedPkgNames.forEach(pkgName => messages.push(...))
DuplicateMessages(duplicatedPkgNames) ==
  [i \in DOMAIN duplicatedPkgNames |-> Msg("linked-duplicate", Undef, duplicatedPkgNames[i], "")]

LinkedMessages(doc, pkgs) ==
  IF doc.linked = Undef THEN <<>>
  ELSE IF ~ LinkedWellShaped(doc.linked) THEN <<Msg("linked", doc.linked, "", "")>>
  ELSE LET st == LinkedLoop(doc.linked.a, PkgNames(pkgs),
                   [messages |-> <<>>, foundPkgNames |-> <<>>, duplicatedPkgNames |-> <<>>])
       IN st.messages \o DuplicateMessages(st.duplicatedPkgNames)

\* !["patch", "minor"].includes(x)
UpdateInternalDependenciesMessages(doc) ==
  IF /\ doc.updateInternalDependencies # Undef
     /\ doc.updateInternalDependencies \notin {Str("patch"), Str("minor")}
  THEN <<Msg("updateInternalDependencies", doc.updateInternalDependencies, "", "")>>
  ELSE <<>>

\* The first loop over json.ignore: the names that are not in the project.
RECURSIVE IgnoreNotFoundLoop(_, _)
IgnoreNotFoundLoop(names, pkgNames) ==
  IF names = <<>> THEN <<>>
  ELSE (IF Head(names).s \notin pkgNames
        THEN <<Msg("ignore-not-found", Undef, Head(names).s, "")>>
        ELSE <<>>) \o IgnoreNotFoundLoop(Tail(names), pkgNames)

\* DependentsOf with a lookup that never finds the package.
DependentsOfNothing(graph, ignoredPackage) == <<>>

\* dependentsGraph.get(ignoredPackage) || []
DependentsOf(graph, ignoredPackage) ==
  IF ignoredPackage \in DOMAIN graph THEN graph[ignoredPackage] ELSE <<>>

\* IgnoreIncludes as `indexOf(dependent) > 0`, which misses the first entry.
IgnoreIncludesAfterFirst(ignore, dependent) ==
  \E i \in DOMAIN ignore.a : i > 1 /\ ignore.a[i] = Str(dependent)

\* json.ignore.includes(dependent)
IgnoreIncludes(ignore, dependent) == Str(dependent) \in Range(ignore.a)

\* The inner loop over the dependents of one ignored package.
RECURSIVE DependentsLoop(_, _, _)
DependentsLoop(dependents, ignoredPackage, ignore) ==
  IF dependents = <<>> THEN <<>>
  ELSE (IF ~ IgnoreIncludes(ignore, Head(dependents))
        THEN <<Msg("ignore-dependent", Undef, Head(dependents), ignoredPackage)>>
        ELSE <<>>) \o DependentsLoop(Tail(dependents), ignoredPackage, ignore)

\* The outer loop over json.ignore.
RECURSIVE IgnoredLoop(_, _, _)
IgnoredLoop(names, graph, ignore) ==
  IF names = <<>> THEN <<>>
  ELSE DependentsLoop(DependentsOf(graph, Head(names).s), Head(names).s, ignore)
         \o IgnoredLoop(Tail(names), graph, ignore)

\* if (json.ignore): a falsy value is not looked at.
IgnoreIsChecked(doc) == Truthy(doc.ignore)

IgnoreMessages(doc, pkgs, graph) ==
  IF ~ IgnoreIsChecked(doc) THEN <<>>
  ELSE IF ~ IsArrayOfStrings(doc.ignore) THEN <<Msg("ignore", doc.ignore, "", "")>>
  ELSE IgnoreNotFoundLoop(doc.ignore.a, PkgNames(pkgs))
         \o IgnoredLoop(doc.ignore.a, graph, doc.ignore)

FlagMessages(options, flag) ==
  IF Get(options, flag) # Undef /\ TypeOf(Get(options, flag)) # "boolean"
  THEN <<Msg(flag, Get(options, flag), "", "")>>
  ELSE <<>>

\* Whether the destructuring of the experimental options throws.
ExperimentalThrows(doc) ==
  doc.experimental # Undef /\ PropertyReadThrows(doc.experimental)

ExperimentalMessages(doc) ==
  IF doc.experimental = Undef THEN <<>>
  ELSE FlagMessages(doc.experimental, "onlyUpdatePeerDependentsWhenOutOfRange")
         \o FlagMessages(doc.experimental, "useCalculatedVersionForSnapshots")

\* new ValidationError(banner + "\n" + messages.join("\n")), as its lines.
ValidationError(msgs) == [name |-> "ValidationError", lines |-> <<Banner>> \o msgs]

\* The TypeError the engine throws for a property read of null.
TypeError == [name |-> "TypeError", lines |-> <<>>]

Or(value, default) == IF value = Undef THEN default ELSE value

ResolvedFlag(doc, flag) ==
  IF doc.experimental = Undef \/ Get(doc.experimental, flag) = Undef
  THEN Bool(FALSE)
  ELSE Get(doc.experimental, flag)

\* The object literal `config` built after validation has passed.
Assemble(doc, access) ==
  [changelog |-> getNormalisedChangelogOption(
                   IF doc.changelog = Undef THEN defaultWrittenConfig.changelog
                   ELSE doc.changelog),
   access |-> Or(access, defaultWrittenConfig.access),
   commit |-> Or(doc.commit, defaultWrittenConfig.commit),
   linked |-> Or(doc.linked, defaultWrittenConfig.linked),
   baseBranch |-> Or(doc.baseBranch, defaultWrittenConfig.baseBranch),
   updateInternalDependencies |->
     Or(doc.updateInternalDependencies, defaultWrittenConfig.updateInternalDependencies),
   ignore |-> Or(doc.ignore, defaultWrittenConfig.ignore),
   onlyUpdatePeerDependentsWhenOutOfRange |->
     ResolvedFlag(doc, "onlyUpdatePeerDependentsWhenOutOfRange"),
   useCalculatedVersionForSnapshots |->
     ResolvedFlag(doc, "useCalculatedVersionForSnapshots")]


(***************************************************************************)
(* The bounded inputs of the modelled call of `parse`.                     *)
(***************************************************************************)
\* The most linked groups in a `linked` value.
MaxGroups == 3

\* The most package names in a `linked` value, over all its groups.
MaxLinkedNames == 4

\* The most package names in an `ignore` value.
MaxIgnore == 3

SeqsUpTo(S, n) == UNION {[1..m -> S] : m \in 0..n}

\* The array of strings of a sequence of names.
StrArr(names) == Arr([i \in DOMAIN names |-> Str(names[i])])

Workspaces == {<<"pkg-a", "pkg-b", "pkg-c">>, <<"pkg-a", "pkg-b">>}

\* The names written in `linked` values: "pkg-c" is missing from one workspace.
LinkedNames == {"pkg-a", "pkg-c"}

\* The names written in `ignore` values.
IgnoreNames == {"pkg-a", "pkg-b", "pkg-c"}

\* The sequences of at most g groups holding at most n names together.
RECURSIVE GroupLists(_, _)
GroupLists(g, n) ==
  IF g = 0 THEN {<<>>}
  ELSE {<<>>} \cup
       UNION {{<<StrArr(grp)>> \o rest : rest \in GroupLists(g - 1, n - Len(grp))} :
                grp \in SeqsUpTo(LinkedNames, n)}

\* Who depends on whom in a workspace: pairs <<dependent, dependency>>.
DependencySets(pkgs) ==
  SUBSET {e \in PkgNames(pkgs) \X PkgNames(pkgs) : e[1] # e[2]}

\* The dependents graph of a workspace: for every package the packages that
\* depend on it, in the order of the workspace.
getDependentsGraph(pkgs, deps) ==
  [p \in PkgNames(pkgs) |-> SelectSeq(pkgs, LAMBDA q : <<q, p>> \in deps)]

Flags == <<"onlyUpdatePeerDependentsWhenOutOfRange", "useCalculatedVersionForSnapshots">>

AllOmitted ==
  [changelog |-> Undef, commit |-> Undef, linked |-> Undef, access |-> Undef,
   baseBranch |-> Undef, updateInternalDependencies |-> Undef, ignore |-> Undef,
   experimental |-> Undef]

AllInvalid ==
  [changelog |-> Bool(TRUE), commit |-> Str("yes"), linked |-> Null,
   access |-> Str("protected"), baseBranch |-> Num("1"),
   updateInternalDependencies |-> Str("major"), ignore |-> Bool(TRUE),
   experimental |-> Obj(Flags, <<Str("yes"), Num("1")>>)]

AllGiven ==
  [changelog |-> Bool(FALSE), commit |-> Bool(TRUE),
   linked |-> Arr(<<StrArr(<<"pkg-a">>), StrArr(<<"pkg-b">>)>>),
   access |-> Str("public"), baseBranch |-> Str("main"),
   updateInternalDependencies |-> Str("minor"), ignore |-> StrArr(<<>>),
   experimental |-> Obj(Flags, <<Bool(TRUE), Bool(TRUE)>>)]

LegacyAndNull == [AllOmitted EXCEPT !.access = Str("private"), !.experimental = Null]

\* The documents the fields under study are written into.
Backgrounds == {AllOmitted, AllInvalid, AllGiven, LegacyAndNull}

ChangelogValues ==
  {Undef, Bool(FALSE), Str("./gen"),
   Arr(<<Str("./gen"), Obj(<<"someOption">>, <<Bool(TRUE)>>)>>),
   Arr(<<Str("./gen")>>), Arr(<<Num("1"), Null>>), Bool(TRUE)}

AccessValues ==
  {Undef, Str("public"), Str("restricted"), Str("private"), Str("protected"), Num("1")}

CommitValues == {Undef, Bool(TRUE), Bool(FALSE), Str("yes")}

BaseBranchValues == {Undef, Str("main"), Num("1")}

UpdateInternalDependenciesValues == {Undef, Str("patch"), Str("minor"), Str("major")}

FlagValues == {Bool(TRUE), Bool(FALSE), Str("yes")}

\* Objects with any of the two flags, absent or set to a flag value.
ExperimentalObjects ==
  {Obj(<<>>, <<>>)}
    \cup {Obj(<<Flags[i]>>, <<v>>) : i \in {1, 2}, v \in FlagValues}
    \cup {Obj(Flags, <<v, w>>) : v \in FlagValues, w \in FlagValues}

ExperimentalValues == {Undef, Null, Num("1"), Str("on")} \cup ExperimentalObjects

LinkedValues ==
  {Undef, Null, Str("pkg-a"), StrArr(<<"pkg-a">>), Arr(<<Arr(<<Num("1")>>)>>)}
    \cup {Arr(groups) : groups \in GroupLists(MaxGroups, MaxLinkedNames)}

IgnoreValues ==
  {Undef, Null, Bool(FALSE), Num("0"), Str(""), Bool(TRUE), Str("pkg-a"),
   Arr(<<Num("1")>>), Arr(<<Str("pkg-a"), Null>>)}
    \cup {StrArr(names) : names \in SeqsUpTo(IgnoreNames, MaxIgnore)}

\* The documents with every combination of the scalar fields, with and
\* without problems in the other fields.
ScalarLinkedValues == {Undef, Arr(<<StrArr(<<"pkg-c">>), StrArr(<<"pkg-c">>)>>)}

ScalarIgnoreValues == {Undef, StrArr(<<"pkg-a", "pkg-c">>)}

ScalarExperimentalValues == {Undef, Null, Obj(Flags, <<Str("yes"), Bool(TRUE)>>)}

(***************************************************************************)
(* The state.                                                              *)
(***************************************************************************)
VARIABLES
  json,              \* the document `parse` was called with
  packages,          \* the names of packages.packages, in order
  dependentsGraph,   \* what getDependentsGraph(packages) returns
  caller,            \* "module" while the module is loaded, then "user"
  pc,                \* the check `parse` is about to run, or how it ended
  messages,          \* the local `messages` of `parse`
  normalizedAccess,  \* the local `normalizedAccess` of `parse`
  warnings,          \* what `warn` was called with during the call
  thrown,            \* <<the error thrown>>, or <<>>
  returned,          \* <<the configuration returned>>, or <<>>
  defaultConfig      \* <<the exported defaultConfig>>, or <<>> before it is set

vars ==
  <<json, packages, dependentsGraph, caller, pc, messages, normalizedAccess,
    warnings, thrown, returned, defaultConfig>>

inputs == <<json, packages, dependentsGraph, caller, defaultConfig>>

\* The module is being loaded: `parse(defaultWrittenConfig, ...)` has been entered.
Init ==
  /\ json = defaultWrittenConfig
  /\ packages = fakePackages
  /\ dependentsGraph = getDependentsGraph(fakePackages, {})
  /\ caller = "module"
  /\ pc = "changelog"
  /\ messages = <<>>
  /\ normalizedAccess = Undef
  /\ warnings = <<>>
  /\ thrown = <<>>
  /\ returned = <<>>
  /\ defaultConfig = <<>>

\* A check that only pushes messages and falls through to the next check.
Check(at, pushed, next) ==
  /\ pc = at
  /\ messages' = messages \o pushed
  /\ pc' = next
  /\ UNCHANGED <<inputs, normalizedAccess, warnings, thrown, returned>>

CheckChangelog == Check("changelog", ChangelogMessages(json), "access")

CheckAccess ==
  /\ pc = "access"
  /\ normalizedAccess' = NormalizeAccess(json)
  /\ warnings' = warnings \o AccessWarnings(json)
  /\ messages' = messages \o AccessMessages(normalizedAccess')
  /\ pc' = "commit"
  /\ UNCHANGED <<inputs, thrown, returned>>

CheckCommit == Check("commit", CommitMessages(json), "baseBranch")

CheckBaseBranch == Check("baseBranch", BaseBranchMessages(json), "linked")

CheckLinked == Check("linked", LinkedMessages(json, packages), "updateInternalDependencies")

CheckUpdateInternalDependencies ==
  Check("updateInternalDependencies", UpdateInternalDependenciesMessages(json), "ignore")

CheckIgnore ==
  Check("ignore", IgnoreMessages(json, packages, dependentsGraph), "experimental")

CheckExperimental ==
  /\ pc = "experimental"
  /\ IF ExperimentalThrows(json)
     THEN /\ thrown' = <<TypeError>>
          /\ pc' = "thrown"
          /\ UNCHANGED messages
     ELSE /\ messages' = messages \o ExperimentalMessages(json)
          /\ pc' = "finish"
          /\ UNCHANGED thrown
  /\ UNCHANGED <<inputs, normalizedAccess, warnings, returned>>

\* The end of `parse`: the aggregated error, or the configuration.
Finish ==
  /\ pc = "finish"
  /\ IF Len(messages) # 0
     THEN /\ thrown' = <<ValidationError(messages)>>
          /\ pc' = "thrown"
          /\ UNCHANGED returned
     ELSE /\ returned' = <<Assemble(json, normalizedAccess)>>
          /\ pc' = "returned"
          /\ UNCHANGED thrown
  /\ UNCHANGED <<inputs, messages, normalizedAccess, warnings>>

\* The module's `export let defaultConfig = parse(...)` receives its value.
Export ==
  /\ caller = "module"
  /\ pc = "returned"
  /\ defaultConfig' = returned
  /\ pc' = "loaded"
  /\ UNCHANGED <<json, packages, dependentsGraph, caller, messages, normalizedAccess,
                 warnings, thrown, returned>>

\* A caller of the loaded module enters `parse(json, packages)`.
Enter(doc, pkgs, deps) ==
  /\ json' = doc
  /\ packages' = pkgs
  /\ dependentsGraph' = getDependentsGraph(pkgs, deps)
  /\ caller' = "user"
  /\ pc' = "changelog"
  /\ messages' = <<>>
  /\ normalizedAccess' = Undef
  /\ warnings' = <<>>
  /\ thrown' = <<>>
  /\ returned' = <<>>
  /\ UNCHANGED defaultConfig

\* The module is loaded and `parse` has not been called.
Loaded == caller = "module" /\ pc = "loaded"

\* The call, on a document that varies the scalar fields together.
CallScalars ==
  /\ Loaded
  /\ \E c \in ChangelogValues, a \in AccessValues, m \in CommitValues,
       b \in BaseBranchValues, u \in UpdateInternalDependenciesValues,
       l \in ScalarLinkedValues, i \in ScalarIgnoreValues, e \in ScalarExperimentalValues :
       Enter([changelog |-> c, access |-> a, commit |-> m, baseBranch |-> b,
              updateInternalDependencies |-> u, linked |-> l, ignore |-> i,
              experimental |-> e],
             <<"pkg-a", "pkg-b">>, {<<"pkg-b", "pkg-a">>})

\* The call, on a document that varies the experimental options.
CallExperimental ==
  /\ Loaded
  /\ \E doc \in Backgrounds, e \in ExperimentalValues :
       Enter([doc EXCEPT !.experimental = e], <<"pkg-a", "pkg-b">>, {})

\* The call, on a document that varies `linked`.
CallLinked ==
  /\ Loaded
  /\ \E doc \in Backgrounds, l \in LinkedValues, pkgs \in Workspaces :
       Enter([doc EXCEPT !.linked = l], pkgs, {})

\* The call, on a document that varies `ignore` and a workspace that varies
\* its dependencies.
CallIgnore ==
  /\ Loaded
  /\ \E doc \in Backgrounds, i \in IgnoreValues, pkgs \in Workspaces :
    \E deps \in DependencySets(pkgs) :
         Enter([doc EXCEPT !.ignore = i], pkgs, deps)

Next ==
  \/ CheckChangelog
  \/ CheckAccess
  \/ CheckCommit
  \/ CheckBaseBranch
  \/ CheckLinked
  \/ CheckUpdateInternalDependencies
  \/ CheckIgnore
  \/ CheckExperimental
  \/ Finish
  \/ Export
  \/ CallScalars
  \/ CallExperimental
  \/ CallLinked
  \/ CallIgnore

Spec == Init /\ [][Next]_vars


(***************************************************************************)
(* Vocabulary of the properties.                                           *)
(***************************************************************************)
\* The call of `parse` by the user has ended.
Done == caller = "user" /\ pc \in {"returned", "thrown"}

\* The call of `parse` by the user has run the check of the given position.
Past(at) ==
  LET order == <<"changelog", "access", "commit", "baseBranch", "linked",
                 "updateInternalDependencies", "ignore", "experimental", "finish",
                 "returned", "thrown">>
      Pos(x) == CHOOSE i \in DOMAIN order : order[i] = x
  IN caller = "user" /\ Pos(pc) > Pos(at)

Succeeded == Done /\ returned # <<>>

Failed == Done /\ returned = <<>> /\ thrown # <<>>

FailedWith(name) == Failed /\ thrown[1].name = name

\* The messages of the aggregated report, when one was thrown.
Report == IF FailedWith("ValidationError") THEN Tail(thrown[1].lines) ELSE <<>>

Indices(seq, Test(_)) == {i \in DOMAIN seq : Test(seq[i])}

OfKind(kinds) == SelectSeq(messages, LAMBDA m : m.kind \in kinds)

\* The dependents the workspace's graph lists for a name.
Dependents(p) == IF p \in DOMAIN dependentsGraph THEN dependentsGraph[p] ELSE <<>>

IgnoreIsWellShaped ==
  json.ignore.t = "array" /\ \A i \in DOMAIN json.ignore.a : json.ignore.a[i].t = "string"

LinkedIsWellShaped ==
  /\ json.linked.t = "array"
  /\ \A i \in DOMAIN json.linked.a :
       /\ json.linked.a[i].t = "array"
       /\ \A j \in DOMAIN json.linked.a[i].a : json.linked.a[i].a[j].t = "string"

\* The names in `ignore`, by position.
Ignored(i) == json.ignore.a[i].s

InIgnore(q) == \E i \in DOMAIN json.ignore.a : json.ignore.a[i] = Str(q)

\* The pairs (position in `ignore`, position in the dependents of that entry)
\* whose dependent is missing from `ignore`.
MissingPairs ==
  UNION {{<<i, j>> : j \in {d \in DOMAIN Dependents(Ignored(i)) :
                              ~ InIgnore(Dependents(Ignored(i))[d])}} :
           i \in DOMAIN json.ignore.a}

\* The linked groups a name occurs in.
GroupsOf(n) ==
  {i \in DOMAIN json.linked.a : \E j \in DOMAIN json.linked.a[i].a : json.linked.a[i].a[j] = Str(n)}

DuplicateMessagesNaming(n) ==
  Indices(messages, LAMBDA m : m.kind = "linked-duplicate" /\ m.pkg = n)

C3_OneDuplicateMessage ==
  (Past("linked") /\ LinkedIsWellShaped) =>
    \A n \in LinkedNames :
      Cardinality(GroupsOf(n)) >= 2 => Cardinality(DuplicateMessagesNaming(n)) = 1

\* A name in three inner arrays, and its one message.
C3_Witness ==
  /\ Done
  /\ LinkedIsWellShaped
  /\ \E n \in LinkedNames :
       /\ Cardinality(GroupsOf(n)) >= 3
       /\ Cardinality(DuplicateMessagesNaming(n)) = 1


\* The fields of a document as the specification's table accepts them.
ChangelogIsValid ==
  \/ json.changelog \in {Undef, Bool(FALSE)}
  \/ json.changelog.t = "string"
  \/ /\ json.changelog.t = "array"
     /\ Len(json.changelog.a) = 2
     /\ json.changelog.a[1].t = "string"

CommitIsValid == json.commit = Undef \/ json.commit.t = "boolean"

BaseBranchIsValid == json.baseBranch = Undef \/ json.baseBranch.t = "string"

UpdateInternalDependenciesIsValid ==
  json.updateInternalDependencies \in {Undef, Str("patch"), Str("minor")}

\* Every name of `linked`, group after group.
RECURSIVE Flat(_)
Flat(groups) == IF groups = <<>> THEN <<>> ELSE Head(groups).a \o Flat(Tail(groups))

\* Well-shaped, every name in the workspace, and no name written twice.
LinkedIsValid ==
  \/ json.linked = Undef
  \/ /\ LinkedIsWellShaped
     /\ \A i \in DOMAIN Flat(json.linked.a) : Flat(json.linked.a)[i].s \in PkgNames(packages)
     /\ \A i, j \in DOMAIN Flat(json.linked.a) :
          Flat(json.linked.a)[i] = Flat(json.linked.a)[j] => i = j

IgnoreIsValid ==
  \/ json.ignore = Undef
  \/ /\ IgnoreIsWellShaped
     /\ \A i \in DOMAIN json.ignore.a : Ignored(i) \in PkgNames(packages)
     /\ MissingPairs = {}

FlagIsValid(flag) ==
  \A i \in DOMAIN json.experimental.k :
    json.experimental.k[i] = flag => json.experimental.a[i].t = "boolean"

ExperimentalIsValid ==
  \/ json.experimental = Undef
  \/ /\ json.experimental.t = "object"
     /\ FlagIsValid(Flags[1])
     /\ FlagIsValid(Flags[2])

FieldsOtherThanAccessAreValid ==
  /\ ChangelogIsValid
  /\ CommitIsValid
  /\ BaseBranchIsValid
  /\ LinkedIsValid
  /\ UpdateInternalDependenciesIsValid
  /\ IgnoreIsValid
  /\ ExperimentalIsValid

AccessMessageCount == Cardinality(Indices(messages, LAMBDA m : m.kind = "access"))

(***************************************************************************)
(* C4: when `access` is "private" the warning is emitted exactly once,     *)
(* whether or not parse fails, no message about access is added, a         *)
(* returned configuration has access "restricted", and parse returns when  *)
(* no other field is invalid; for any other value that is not undefined,   *)
(* "public" or "restricted" parse fails with a message about access and    *)
(* no warning is emitted.                                                  *)
(***************************************************************************)
C4_LegacyAccess ==
  /\ (Past("access") /\ json.access = Str("private")) =>
       /\ warnings = <<PrivateAccessWarning>>
       /\ AccessMessageCount = 0
       /\ Succeeded => returned[1].access = Str("restricted")
       /\ (Done /\ FieldsOtherThanAccessAreValid) => Succeeded
  /\ (Past("access")
        /\ json.access \notin {Undef, Str("public"), Str("restricted"), Str("private")}) =>
       /\ warnings = <<>>
       /\ AccessMessageCount = 1
       /\ Done => Failed

\* "private" resolved to "restricted" with one warning, in a call that returns.
C4_Witness ==
  /\ Succeeded
  /\ json.access = Str("private")
  /\ returned[1].access = Str("restricted")
  /\ warnings = <<PrivateAccessWarning>>

\* The configuration the specification's merge yields for the document.
ReferenceChangelog ==
  CASE json.changelog = Undef -> Arr(<<Str("@changesets/cli/changelog"), Null>>)
    [] json.changelog = Bool(FALSE) -> Bool(FALSE)
    [] json.changelog.t = "string" -> Arr(<<Str(json.changelog.s), Null>>)
    [] OTHER -> json.changelog

ReferenceFlag(flag) ==
  IF json.experimental.t = "object" /\ \E i \in DOMAIN json.experimental.k : json.experimental.k[i] = flag
  THEN json.experimental.a[CHOOSE i \in DOMAIN json.experimental.k : json.experimental.k[i] = flag]
  ELSE Bool(FALSE)

ReferenceMerge ==
  [changelog |-> ReferenceChangelog,
   access |-> CASE json.access = Undef -> Str("restricted")
                [] json.access = Str("private") -> Str("restricted")
                [] OTHER -> json.access,
   commit |-> IF json.commit = Undef THEN Bool(FALSE) ELSE json.commit,
   linked |-> IF json.linked = Undef THEN Arr(<<>>) ELSE json.linked,
   baseBranch |-> IF json.baseBranch = Undef THEN Str("master") ELSE json.baseBranch,
   updateInternalDependencies |->
     IF json.updateInternalDependencies = Undef THEN Str("patch")
     ELSE json.updateInternalDependencies,
   ignore |-> IF json.ignore = Undef THEN Arr(<<>>) ELSE json.ignore,
   onlyUpdatePeerDependentsWhenOutOfRange |-> ReferenceFlag(Flags[1]),
   useCalculatedVersionForSnapshots |-> ReferenceFlag(Flags[2])]

DefaultTemplate ==
  [changelog |-> Arr(<<Str("@changesets/cli/changelog"), Null>>),
   access |-> Str("restricted"),
   commit |-> Bool(FALSE),
   linked |-> Arr(<<>>),
   baseBranch |-> Str("master"),
   updateInternalDependencies |-> Str("patch"),
   ignore |-> Arr(<<>>),
   onlyUpdatePeerDependentsWhenOutOfRange |-> Bool(FALSE),
   useCalculatedVersionForSnapshots |-> Bool(FALSE)]

(***************************************************************************)
(* C5: a returned configuration is the reference merge of the document     *)
(* over the Default Template (changelog normalized, access rewritten, each *)
(* experimental flag false unless given); the document with every field    *)
(* omitted is accepted and resolves to the Default Template, which is the  *)
(* exported defaultConfig.                                                 *)
(***************************************************************************)
C5_AssemblyIsReferenceMerge ==
  /\ Succeeded => returned[1] = ReferenceMerge
  /\ (Done /\ json = AllOmitted) =>
       /\ Succeeded
       /\ returned[1] = DefaultTemplate
       /\ defaultConfig = <<DefaultTemplate>>
  /\ pc = "loaded" => defaultConfig = <<DefaultTemplate>>

\* A string changelog resolved to the pair of it and null, next to a flag
\* given in the experimental options.
C5_Witness ==
  /\ Succeeded
  /\ json.changelog = Str("./gen")
  /\ returned[1].changelog = Arr(<<Str("./gen"), Null>>)
  /\ json.commit = Undef
  /\ returned[1].commit = Bool(FALSE)
  /\ defaultConfig = <<DefaultTemplate>>


\* The place of a message in the order of the checks: the field, then the
\* loop of the field that pushes it.
Place(m) ==
  CASE m.kind = "changelog" -> 10
    [] m.kind = "access" -> 20
    [] m.kind = "commit" -> 30
    [] m.kind = "baseBranch" -> 40
    [] m.kind = "linked" -> 50
    [] m.kind = "linked-not-found" -> 51
    [] m.kind = "linked-duplicate" -> 52
    [] m.kind = "updateInternalDependencies" -> 60
    [] m.kind = "ignore" -> 70
    [] m.kind = "ignore-not-found" -> 71
    [] m.kind = "ignore-dependent" -> 72
    [] m.kind = Flags[1] -> 80
    [] m.kind = Flags[2] -> 90

ReportOfKind(kind) == SelectSeq(Report, LAMBDA m : m.kind = kind)

PkgsNamed(msgs) == [i \in DOMAIN msgs |-> msgs[i].pkg]

\* The names of a sequence of strings that are not in the workspace, in order.
NotInWorkspace(strings) ==
  LET missing == SelectSeq(strings, LAMBDA v : v.s \notin PkgNames(packages))
  IN [i \in DOMAIN missing |-> missing[i].s]

\* Where the second occurrence of a name stands in `linked`, read set by set.
DetectedAt(n) ==
  LET flat == Flat(json.linked.a)
      second == {p \in DOMAIN flat : flat[p].s = n /\ \E q \in 1..(p - 1) : flat[q].s = n}
  IN CHOOSE p \in second : \A q \in second : p <= q

Before(q, pr) == q[1] < pr[1] \/ (q[1] = pr[1] /\ q[2] < pr[2])

\* The k-th missing pair, by position in `ignore` and then in the dependents.
PairAt(k) ==
  CHOOSE pr \in MissingPairs : Cardinality({q \in MissingPairs : Before(q, pr)}) = k - 1

(***************************************************************************)
(* C8: the aggregated report lists the messages in the order the checks    *)
(* ran: field after field; in `linked` the not-found messages in the order *)
(* of the names, set by set, then the duplicate messages in the order the  *)
(* duplications were detected; in `ignore` the not-found messages in list  *)
(* order, then the missing-dependent messages by position of the ignored   *)
(* package and then by the order of the dependents graph.                  *)
(***************************************************************************)
C8_ReportOrder ==
  FailedWith("ValidationError") =>
    /\ thrown[1].lines[1] = Banner
    /\ Report = messages
    /\ \A i, j \in DOMAIN Report : i < j => Place(Report[i]) <= Place(Report[j])
    /\ LinkedIsWellShaped =>
         /\ PkgsNamed(ReportOfKind("linked-not-found")) = NotInWorkspace(Flat(json.linked.a))
         /\ LET dups == ReportOfKind("linked-duplicate")
            IN \A i, j \in DOMAIN dups :
                 i < j => DetectedAt(dups[i].pkg) < DetectedAt(dups[j].pkg)
    /\ IgnoreIsWellShaped =>
         /\ PkgsNamed(ReportOfKind("ignore-not-found")) = NotInWorkspace(json.ignore.a)
         /\ LET deps == ReportOfKind("ignore-dependent")
            IN /\ Len(deps) = Cardinality(MissingPairs)
               /\ \A k \in DOMAIN deps :
                    /\ deps[k].dependsOn = Ignored(PairAt(k)[1])
                    /\ deps[k].pkg = Dependents(deps[k].dependsOn)[PairAt(k)[2]]

\* A report with messages of the scalar fields around those of both loops
\* of `linked` and both loops of `ignore`.
C8_Witness ==
  /\ FailedWith("ValidationError")
  /\ \A kind \in {"changelog", "linked-not-found", "linked-duplicate",
                  "updateInternalDependencies", "ignore-not-found", "ignore-dependent",
                  Flags[1]} :
       ReportOfKind(kind) # <<>>

\* The names of the array of strings v.
NamesIn(v) == {v.a[i].s : i \in DOMAIN v.a}

(***************************************************************************)
(* C9: in a returned configuration every name of `linked` and of `ignore`  *)
(* is a package of the workspace, no name is in more than one linked set,  *)
(* and every dependent of an ignored package is in `ignore`.               *)
(***************************************************************************)
C9_SuccessPostcondition ==
  Succeeded =>
    LET linked == returned[1].linked
        ignore == returned[1].ignore
    IN /\ \A i \in DOMAIN linked.a : NamesIn(linked.a[i]) \subseteq PkgNames(packages)
       /\ \A i, j \in DOMAIN linked.a : i # j => NamesIn(linked.a[i]) \cap NamesIn(linked.a[j]) = {}
       /\ NamesIn(ignore) \subseteq PkgNames(packages)
       /\ \A p \in NamesIn(ignore) : Range(Dependents(p)) \subseteq NamesIn(ignore)

\* A returned configuration with two linked sets and an ignored package
\* whose dependent is ignored too.
C9_Witness ==
  /\ Succeeded
  /\ Len(returned[1].linked.a) >= 2
  /\ \A i \in DOMAIN returned[1].linked.a : returned[1].linked.a[i].a # <<>>
  /\ \E p \in NamesIn(returned[1].ignore) : Dependents(p) # <<>>

\* The document with every field but one omitted.
Alone(field) == [AllOmitted EXCEPT ![field] = json[field]]

(***************************************************************************)
(* C1: every check contributes its messages whatever the other fields      *)
(* hold, and parse fails with the aggregated ValidationError (the banner,  *)
(* then every message) exactly when the accumulated list is not empty,     *)
(* returning no configuration then.                                        *)
(***************************************************************************)
C1_CollectsEveryProblem ==
  Done =>
    /\ OfKind({"changelog"}) = ChangelogMessages(Alone("changelog"))
    /\ OfKind({"access"}) = AccessMessages(NormalizeAccess(Alone("access")))
    /\ OfKind({"commit"}) = CommitMessages(Alone("commit"))
    /\ OfKind({"baseBranch"}) = BaseBranchMessages(Alone("baseBranch"))
    /\ OfKind({"linked", "linked-not-found", "linked-duplicate"})
         = LinkedMessages(Alone("linked"), packages)
    /\ OfKind({"updateInternalDependencies"})
         = UpdateInternalDependenciesMessages(Alone("updateInternalDependencies"))
    /\ OfKind({"ignore", "ignore-not-found", "ignore-dependent"})
         = IgnoreMessages(Alone("ignore"), packages, dependentsGraph)
    /\ OfKind({Flags[1], Flags[2]}) = ExperimentalMessages(Alone("experimental"))
    /\ messages # <<>> <=>
         (FailedWith("ValidationError") /\ thrown[1].lines = <<Banner>> \o messages)
    /\ messages # <<>> => returned = <<>>

(***************************************************************************)
(* C6: a document whose `ignore` is neither undefined nor an array of      *)
(* strings makes parse fail with a message about the `ignore` option.      *)
(***************************************************************************)
C6_IgnoreMustBeArrayOfStrings ==
  (Past("ignore") /\ json.ignore # Undef /\ ~ IgnoreIsWellShaped) =>
    /\ OfKind({"ignore"}) # <<>>
    /\ Done => Failed

(***************************************************************************)
(* C7: parse either returns a configuration or fails with the aggregated   *)
(* ValidationError, also when the experimental options are null.           *)
(***************************************************************************)
C7_OneFailureKind == Done => (Succeeded \/ FailedWith("ValidationError"))

(***************************************************************************)
(* C10: an "is in multiple sets of linked packages" message names a        *)
(* package only if the package occurs in at least two inner arrays of      *)
(* `linked`.                                                               *)
(***************************************************************************)
C10_DuplicateOnlyAcrossSets ==
  (Past("linked") /\ LinkedIsWellShaped) =>
    \A n \in LinkedNames :
      DuplicateMessagesNaming(n) # {} => Cardinality(GroupsOf(n)) >= 2

====
